---- MODULE Spec2Model ----
(***************************************************************************)
(* Model of get_public_ip.py: a script that opens a TCP connection to      *)
(* icanhazip.com:80 (IPv6, IPv4 or IPv6-then-IPv4), sends one HTTP GET,    *)
(* reads one buffer, and prints the last line of what it read, or a        *)
(* failure message.                                                        *)
(*                                                                         *)
(* Text is a sequence of Unicode code points; a bytes object is a sequence *)
(* of integers 0..255.  A Python value that is "str or None" is a record   *)
(* [none |-> BOOLEAN, s |-> text].                                         *)
(***************************************************************************)
EXTENDS Integers, Sequences, FiniteSets, TLC

VARIABLES
    argv,       \* the command line, sys.argv[1:]: a sequence of tokens
    args,       \* argparse namespace: [ip_version, failure_message]
    pc,         \* position of the single thread of control
    todo,       \* versions the for loop of main has still to visit
    version,    \* argument of the running get_public_ip call
    sock,       \* local `sock` of open_tcp_connection: "unset", "socket", "False"
    fd,         \* per version: descriptor of the socket object created for it
    conn,       \* per version: how far open_tcp_connection got
    sent,       \* versions on whose socket send() was called
    recvd,      \* versions on whose socket recv() was called
    message,    \* bytes returned by recv in the running call
    calls,      \* get_public_ip calls made so far, in order
    ret,        \* per version: how its get_public_ip call ended
    address,    \* local `address` of main
    stdout,     \* text written to standard output
    stderr,     \* what went to standard error: "", "usage" or "traceback"
    exit_code   \* <<>> while the process runs, then <<its exit status>>

vars == <<argv, args, pc, todo, version, sock, fd, conn, sent, recvd, message,
          calls, ret, address, stdout, stderr, exit_code>>

----------------------------------------------------------------------------
(* Bounds of the model *)

\* longest byte string recv is let to return
MaxMsgLen == 3

\* longest command line
MaxArgs == 3

----------------------------------------------------------------------------
(* Program constants *)

\* sock.recv(2048)
RecvBufSize == 2048

\* 'service unreachable'
DefaultFailureMessage ==
    <<115, 101, 114, 118, 105, 99, 101, 32,
      117, 110, 114, 101, 97, 99, 104, 97, 98, 108, 101>>

\* 'offline', a value passed with -f
Offline == <<111, 102, 102, 108, 105, 110, 101>>

Versions == {4, 6}

\* the bytes recv is let to deliver: '1', LF, CR, 0xC2, 0x85, 0xFF
\* (0xC2 0x85 is U+0085 NEXT LINE; 0x85 and 0xFF alone are not UTF-8)
WireBytes == {49, 10, 13, 194, 133, 255}

\* the characters str.splitlines treats as line boundaries:
\* LF, VT, FF, CR, FS, GS, RS, NEL, LINE SEPARATOR, PARAGRAPH SEPARATOR
LineBreaks == {10, 11, 12, 13, 28, 29, 30, 133, 8232, 8233}

\* what print appends to its argument
Newline == <<10>>

----------------------------------------------------------------------------
(* Python values *)

None == [none |-> TRUE, s |-> <<>>]
Str(s) == [none |-> FALSE, s |-> s]

\* truth value of a "str or None"
Truthy(v) == ~v.none /\ v.s # <<>>

\* a or b
Or(a, b) == IF Truthy(a) THEN a ELSE b

Min(a, b) == IF a <= b THEN a ELSE b

RECURSIVE SeqsUpTo(_, _)
SeqsUpTo(S, n) ==
    IF n = 0 THEN {<<>>}
    ELSE LET shorter == SeqsUpTo(S, n - 1)
         IN  shorter \cup {Append(s, x) : s \in {t \in shorter : Len(t) = n - 1}, x \in S}

----------------------------------------------------------------------------
(* str(message, encoding='utf-8'): strict UTF-8 decoding *)

IsCont(b) == b >= 128 /\ b <= 191

\* length of the well-formed UTF-8 sequence at the head of b, 0 if there is none
Utf8SeqLen(b) ==
    LET n == Len(b) IN
    IF b[1] < 128 THEN 1
    ELSE IF b[1] >= 194 /\ b[1] <= 223
        THEN IF n >= 2 /\ IsCont(b[2]) THEN 2 ELSE 0
    ELSE IF b[1] >= 224 /\ b[1] <= 239
        THEN IF /\ n >= 3
                /\ IsCont(b[2])
                /\ (b[1] = 224 => b[2] >= 160)
                /\ (b[1] = 237 => b[2] <= 159)
                /\ IsCont(b[3])
             THEN 3 ELSE 0
    ELSE IF b[1] >= 240 /\ b[1] <= 244
        THEN IF /\ n >= 4
                /\ IsCont(b[2])
                /\ (b[1] = 240 => b[2] >= 144)
                /\ (b[1] = 244 => b[2] <= 143)
                /\ IsCont(b[3])
                /\ IsCont(b[4])
             THEN 4 ELSE 0
    ELSE 0

\* the code point the first k bytes of b encode
Utf8CodePoint(b, k) ==
    IF k = 1 THEN b[1]
    ELSE IF k = 2 THEN (b[1] - 192) * 64 + (b[2] - 128)
    ELSE IF k = 3 THEN (b[1] - 224) * 4096 + (b[2] - 128) * 64 + (b[3] - 128)
    ELSE (b[1] - 240) * 262144 + (b[2] - 128) * 4096 + (b[3] - 128) * 64 + (b[4] - 128)

\* [ok |-> decoding succeeded, s |-> the text]; ok = FALSE is UnicodeDecodeError
RECURSIVE Utf8Decode(_)
Utf8Decode(b) ==
    IF b = <<>> THEN [ok |-> TRUE, s |-> <<>>]
    ELSE LET k == Utf8SeqLen(b) IN
         IF k = 0 THEN [ok |-> FALSE, s |-> <<>>]
         ELSE LET rest == Utf8Decode(SubSeq(b, k + 1, Len(b))) IN
              [ok |-> rest.ok,
               s  |-> IF rest.ok THEN <<Utf8CodePoint(b, k)>> \o rest.s ELSE <<>>]

----------------------------------------------------------------------------
(* str.splitlines() *)

\* index of the first line boundary of s, Len(s) + 1 if it has none
FirstBreak(s) ==
    IF \E i \in 1..Len(s) : s[i] \in LineBreaks
    THEN CHOOSE i \in 1..Len(s) :
            /\ s[i] \in LineBreaks
            /\ \A j \in 1..(i - 1) : s[j] \notin LineBreaks
    ELSE Len(s) + 1

\* index of the first character after the line that ends at eol (CR LF is one boundary)
AfterBreak(s, eol) ==
    IF eol > Len(s) THEN eol
    ELSE IF s[eol] = 13 /\ eol + 1 <= Len(s) /\ s[eol + 1] = 10 THEN eol + 2
    ELSE eol + 1

\* splitlines that keeps the line boundary at the end of each line (keepends=True)
RECURSIVE SplitLinesKeepEnds(_)
SplitLinesKeepEnds(s) ==
    IF s = <<>> THEN <<>>
    ELSE LET eol  == FirstBreak(s)
             next == AfterBreak(s, eol)
         IN  <<SubSeq(s, 1, next - 1)>> \o SplitLinesKeepEnds(SubSeq(s, next, Len(s)))

\* the list of lines of s, line boundaries removed; no empty last line after
\* a final boundary
RECURSIVE SplitLines(_)
SplitLines(s) ==
    IF s = <<>> THEN <<>>
    ELSE LET eol  == FirstBreak(s)
             next == AfterBreak(s, eol)
         IN  <<SubSeq(s, 1, eol - 1)>> \o SplitLines(SubSeq(s, next, Len(s)))

\* lines 55-56: how get_public_ip ends once the with block is left with `msg`
ParseResponse(msg) ==
    LET text == Utf8Decode(msg) IN
    IF ~text.ok THEN [st |-> "raised", val |-> None, exc |-> "UnicodeDecodeError"]
    ELSE LET lines == SplitLines(text.s) IN
         IF lines = <<>> THEN [st |-> "raised", val |-> None, exc |-> "IndexError"]
         ELSE [st |-> "returned", val |-> Str(lines[Len(lines)]), exc |-> ""]

----------------------------------------------------------------------------
(* Command line *)

\* the words a command line is made of: the four short flags, their help
\* flag, and a word that is no flag
Tokens == {"-a", "-4", "-6", "-f", "-h", "offline"}

\* the command lines considered
ArgvSet == SeqsUpTo(Tokens, MaxArgs)

\* args before parse_args has returned
NoArgs == [ip_version |-> 0 - 1, failure_message |-> <<>>]

\* what parser.print_help writes for -h (prog get_public_ip.py): 13 lines,
\* "usage: get_public_ip.py [-h] [-a | -4 | -6] [-f FAILURE_MESSAGE]" ...
HelpText ==
    <<
      117, 115, 97, 103, 101, 58, 32, 103, 101, 116, 95, 112, 117, 98, 108, 105,
      99, 95, 105, 112, 46, 112, 121, 32, 91, 45, 104, 93, 32, 91, 45, 97,
      32, 124, 32, 45, 52, 32, 124, 32, 45, 54, 93, 32, 91, 45, 102, 32,
      70, 65, 73, 76, 85, 82, 69, 95, 77, 69, 83, 83, 65, 71, 69, 93,
      10, 10, 80, 114, 105, 110, 116, 32, 116, 104, 101, 32, 112, 117, 98, 108,
      105, 99, 32, 73, 80, 32, 97, 100, 100, 114, 101, 115, 115, 32, 111, 102,
      32, 116, 104, 105, 115, 32, 104, 111, 115, 116, 10, 10, 111, 112, 116, 105,
      111, 110, 115, 58, 10, 32, 32, 45, 104, 44, 32, 45, 45, 104, 101, 108,
      112, 32, 32, 32, 32, 32, 32, 32, 32, 32, 32, 32, 32, 115, 104, 111,
      119, 32, 116, 104, 105, 115, 32, 104, 101, 108, 112, 32, 109, 101, 115, 115,
      97, 103, 101, 32, 97, 110, 100, 32, 101, 120, 105, 116, 10, 32, 32, 45,
      97, 44, 32, 45, 45, 97, 117, 116, 111, 10, 32, 32, 45, 52, 44, 32,
      45, 45, 105, 112, 118, 52, 10, 32, 32, 45, 54, 44, 32, 45, 45, 105,
      112, 118, 54, 10, 32, 32, 45, 102, 32, 70, 65, 73, 76, 85, 82, 69,
      95, 77, 69, 83, 83, 65, 71, 69, 44, 32, 45, 45, 102, 97, 105, 108,
      117, 114, 101, 95, 109, 101, 115, 115, 97, 103, 101, 32, 70, 65, 73, 76,
      85, 82, 69, 95, 77, 69, 83, 83, 65, 71, 69, 10, 10, 73, 102, 32,
      45, 45, 97, 117, 116, 111, 32, 105, 115, 32, 115, 112, 101, 99, 105, 102,
      105, 101, 100, 44, 32, 102, 105, 114, 115, 116, 32, 97, 116, 116, 101, 109,
      112, 116, 32, 116, 111, 32, 114, 101, 116, 114, 105, 101, 118, 101, 32, 73,
      80, 118, 54, 32, 97, 100, 100, 114, 101, 115, 115, 46, 32, 84, 104, 101,
      110, 32, 102, 97, 108, 108, 32, 98, 97, 99, 107, 10, 116, 111, 32, 73,
      80, 118, 52, 32, 105, 102, 32, 116, 104, 97, 116, 32, 102, 97, 105, 108,
      115, 46, 32, 73, 102, 32, 110, 111, 32, 111, 112, 116, 105, 111, 110, 32,
      105, 115, 32, 115, 112, 101, 99, 105, 102, 105, 101, 100, 44, 32, 45, 45,
      97, 117, 116, 111, 32, 105, 115, 32, 97, 115, 115, 117, 109, 101, 100, 46,
      10
    >>

\* parse_args from word i on. mode is the flag of the mutually exclusive
\* group seen so far ("" for none), fmsg the failure message so far, extras
\* whether a word was left over. -h prints the help and exits where it is
\* met; a second, different flag of the group, and -f without a value, are
\* errors where they are met; left-over words are an error at the end.
RECURSIVE ParseFrom(_, _, _, _, _)
ParseFrom(a, i, mode, fmsg, extras) ==
    IF i > Len(a)
    THEN IF extras
         THEN [kind |-> "error", args |-> NoArgs]
         ELSE [kind |-> "ok",
               args |-> [ip_version      |-> IF mode = "-4" THEN 4
                                             ELSE IF mode = "-6" THEN 6 ELSE 0,
                         failure_message |-> fmsg]]
    ELSE IF a[i] = "-h" THEN [kind |-> "help", args |-> NoArgs]
    ELSE IF a[i] \in {"-a", "-4", "-6"}
         THEN IF mode \notin {"", a[i]}
              THEN [kind |-> "error", args |-> NoArgs]
              ELSE ParseFrom(a, i + 1, a[i], fmsg, extras)
    ELSE IF a[i] = "-f"
         THEN IF i + 1 <= Len(a) /\ a[i + 1] = "offline"
              THEN ParseFrom(a, i + 2, mode, Offline, extras)
              ELSE [kind |-> "error", args |-> NoArgs]
    ELSE ParseFrom(a, i + 1, mode, fmsg, TRUE)

\* parser.parse_args(argv): the namespace, or one of its two exits
ParseArgv(a) == ParseFrom(a, 1, "", DefaultFailureMessage, FALSE)

\* '{}'.format(address)
Format(v) == IF v.none THEN <<78, 111, 110, 101>> ELSE v.s

----------------------------------------------------------------------------
(* State machine *)

NotCalled == [st |-> "notcalled", val |-> None, exc |-> ""]
Running == [st |-> "running", val |-> None, exc |-> ""]
Returned(v) == [st |-> "returned", val |-> v, exc |-> ""]
Raised(e) == [st |-> "raised", val |-> None, exc |-> e]

Init ==
    /\ argv \in ArgvSet
    /\ args = NoArgs
    /\ pc = "parse"
    /\ todo = <<>>
    /\ version = 0
    /\ sock = "unset"
    /\ fd = [v \in Versions |-> "none"]
    /\ conn = [v \in Versions |-> "none"]
    /\ sent = {}
    /\ recvd = {}
    /\ message = <<>>
    /\ calls = <<>>
    /\ ret = [v \in Versions |-> NotCalled]
    /\ address = None
    /\ stdout = <<>>
    /\ stderr = ""
    /\ exit_code = <<>>

\* main calls get_public_ip(v): a new frame, nothing opened yet
Call(v) ==
    /\ version' = v
    /\ calls' = Append(calls, v)
    /\ ret' = [ret EXCEPT ![v] = Running]
    /\ sock' = "unset"
    /\ message' = <<>>
    /\ pc' = "socket"

\* an exception leaves get_public_ip; nothing on the way catches it
Raise(e) ==
    /\ ret' = [ret EXCEPT ![version] = Raised(e)]
    /\ pc' = "raised"

\* lines 64-80: parse_args returns the namespace; or it ends the process
\* itself: on -h with the help text on stdout and status 0, on a command line
\* it rejects with a usage message on stderr and status 2
ParseArgs ==
    /\ pc = "parse"
    /\ LET parsed == ParseArgv(argv) IN
       IF parsed.kind = "ok"
       THEN /\ args' = parsed.args
            /\ pc' = "main"
            /\ UNCHANGED <<stdout, stderr, exit_code>>
       ELSE IF parsed.kind = "help"
       THEN /\ stdout' = stdout \o HelpText
            /\ exit_code' = <<0>>
            /\ pc' = "exited"
            /\ UNCHANGED <<args, stderr>>
       ELSE /\ stderr' = "usage"
            /\ exit_code' = <<2>>
            /\ pc' = "exited"
            /\ UNCHANGED <<args, stdout>>
    /\ UNCHANGED <<argv, todo, version, sock, fd, conn, sent, recvd, message,
                   calls, ret, address>>

\* lines 82-83: auto mode enters the for loop over [6, 4]
MainAuto ==
    /\ pc = "main"
    /\ args.ip_version = 0
    /\ todo' = <<6, 4>>
    /\ pc' = "for"
    /\ UNCHANGED <<argv, args, version, sock, fd, conn, sent, recvd, message,
                   calls, ret, address, stdout, stderr, exit_code>>

\* lines 89-90: a given version, one call
MainVersion ==
    /\ pc = "main"
    /\ args.ip_version # 0
    /\ Call(args.ip_version)
    /\ UNCHANGED <<argv, args, todo, fd, conn, sent, recvd, address, stdout,
                   stderr, exit_code>>

\* lines 83-84 and 87-88: the next iteration, or the else clause of the for loop
ForNext ==
    /\ pc = "for"
    /\ IF todo # <<>>
       THEN /\ Call(Head(todo))
            /\ todo' = Tail(todo)
            /\ UNCHANGED address
       ELSE /\ address' = Str(args.failure_message)
            /\ pc' = "print"
            /\ UNCHANGED <<todo, version, calls, ret, sock, message>>
    /\ UNCHANGED <<argv, args, fd, conn, sent, recvd, stdout, stderr, exit_code>>

\* lines 25-28: socket.socket(family=...) makes the socket, or raises OSError
\* (the address family is not supported, no descriptor left); line 30 is not
\* reached then and nothing catches the exception
CreateSocket ==
    /\ pc = "socket"
    /\ \E created \in BOOLEAN :
         IF created
         THEN /\ fd' = [fd EXCEPT ![version] = "open"]
              /\ conn' = [conn EXCEPT ![version] = "created"]
              /\ sock' = "socket"
              /\ pc' = "connect"
              /\ UNCHANGED ret
         ELSE /\ conn' = [conn EXCEPT ![version] = "socket_error"]
              /\ Raise("OSError")
              /\ UNCHANGED <<fd, sock>>
    /\ UNCHANGED <<argv, args, todo, version, sent, recvd, message, calls,
                   address, stdout, stderr, exit_code>>

\* lines 30-35 with the socket object kept alive after a connect error (as
\* when another reference to it is held): its descriptor stays open
ConnectLeavesSocketOpen ==
    /\ pc = "connect"
    /\ \E connected \in BOOLEAN :
         IF connected
         THEN /\ conn' = [conn EXCEPT ![version] = "connected"]
              /\ UNCHANGED sock
         ELSE /\ conn' = [conn EXCEPT ![version] = "connect_error"]
              /\ sock' = "False"
    /\ UNCHANGED fd
    /\ pc' = "body"
    /\ UNCHANGED <<argv, args, todo, version, sent, recvd, message, calls, ret,
                   address, stdout, stderr, exit_code>>

\* lines 30-35: sock.connect; on OSError the name sock is rebound to False.
\* That drops the only reference to the socket object (the handler binds no
\* exception, nothing else holds it), so it is finalized there and its
\* descriptor closed, without a call of close()
Connect ==
    /\ pc = "connect"
    /\ \E connected \in BOOLEAN :
         IF connected
         THEN /\ conn' = [conn EXCEPT ![version] = "connected"]
              /\ UNCHANGED <<sock, fd>>
         ELSE /\ conn' = [conn EXCEPT ![version] = "connect_error"]
              /\ sock' = "False"
              /\ fd' = [fd EXCEPT ![version] = "closed"]
    /\ pc' = "body"
    /\ UNCHANGED <<argv, args, todo, version, sent, recvd, message, calls, ret,
                   address, stdout, stderr, exit_code>>

\* lines 50-51, then 37: not sock, return None; the generator resumes after
\* the yield and, sock being False, closes nothing
ReturnNone ==
    /\ pc = "body"
    /\ sock = "False"
    /\ ret' = [ret EXCEPT ![version] = Returned(None)]
    /\ pc' = "returned"
    /\ UNCHANGED <<argv, args, todo, version, sock, fd, conn, sent, recvd,
                   message, calls, address, stdout, stderr, exit_code>>

\* line 52: sock.send; an OSError is thrown into the generator at its yield,
\* which has no try around it: lines 37-38 are skipped and the error goes on
Send ==
    /\ pc = "body"
    /\ sock = "socket"
    /\ sent' = sent \cup {version}
    /\ \E ok \in BOOLEAN :
         IF ok THEN pc' = "recv" /\ UNCHANGED ret
         ELSE Raise("OSError")
    /\ UNCHANGED <<argv, args, todo, version, sock, fd, conn, recvd, message,
                   calls, address, stdout, stderr, exit_code>>

\* line 53: one sock.recv(2048): any bytes that have arrived, at most the
\* buffer size, none if the peer closed; or OSError, as for send
Recv ==
    /\ pc = "recv"
    /\ recvd' = recvd \cup {version}
    /\ \/ \E m \in SeqsUpTo(WireBytes, Min(MaxMsgLen, RecvBufSize)) :
            /\ message' = m
            /\ pc' = "exit_with"
            /\ UNCHANGED ret
       \/ /\ Raise("OSError")
          /\ UNCHANGED message
    /\ UNCHANGED <<argv, args, todo, version, sock, fd, conn, sent, calls,
                   address, stdout, stderr, exit_code>>

\* lines 37-38: the with block ends normally, the generator resumes
CloseSocket ==
    /\ pc = "exit_with"
    /\ fd' = IF sock = "socket" THEN [fd EXCEPT ![version] = "closed"] ELSE fd
    /\ pc' = "decode"
    /\ UNCHANGED <<argv, args, todo, version, sock, conn, sent, recvd, message,
                   calls, ret, address, stdout, stderr, exit_code>>

\* lines 55-56
Decode ==
    /\ pc = "decode"
    /\ ret' = [ret EXCEPT ![version] = ParseResponse(message)]
    /\ pc' = IF ParseResponse(message).st = "raised" THEN "raised" ELSE "returned"
    /\ UNCHANGED <<argv, args, todo, version, sock, fd, conn, sent, recvd,
                   message, calls, address, stdout, stderr, exit_code>>

\* lines 84-86, with the address never tested: the loop always goes on
ResumeAutoNoBreak ==
    /\ pc = "returned"
    /\ args.ip_version = 0
    /\ address' = ret[version].val
    /\ pc' = "for"
    /\ UNCHANGED <<argv, args, todo, version, sock, fd, conn, sent, recvd,
                   message, calls, ret, stdout, stderr, exit_code>>

\* lines 84-88, with the else clause run whenever the list is used up, break or not
ResumeAutoElseAfterBreak ==
    /\ pc = "returned"
    /\ args.ip_version = 0
    /\ address' = IF Truthy(ret[version].val) /\ todo # <<>>
                  THEN ret[version].val ELSE Str(args.failure_message)
    /\ pc' = IF Truthy(ret[version].val) \/ todo = <<>> THEN "print" ELSE "for"
    /\ UNCHANGED <<argv, args, todo, version, sock, fd, conn, sent, recvd,
                   message, calls, ret, stdout, stderr, exit_code>>

\* lines 84-86: address = get_public_ip(version); if address: break
ResumeAuto ==
    /\ pc = "returned"
    /\ args.ip_version = 0
    /\ address' = ret[version].val
    /\ pc' = IF Truthy(ret[version].val) THEN "print" ELSE "for"
    /\ UNCHANGED <<argv, args, todo, version, sock, fd, conn, sent, recvd,
                   message, calls, ret, stdout, stderr, exit_code>>

\* line 90: address = get_public_ip(args.ip_version) or args.failure_message
ResumeVersion ==
    /\ pc = "returned"
    /\ args.ip_version # 0
    /\ address' = Or(ret[version].val, Str(args.failure_message))
    /\ pc' = "print"
    /\ UNCHANGED <<argv, args, todo, version, sock, fd, conn, sent, recvd,
                   message, calls, ret, stdout, stderr, exit_code>>

\* line 92
PrintAddress ==
    /\ pc = "print"
    /\ stdout' = stdout \o Format(address) \o Newline
    /\ pc' = "end"
    /\ UNCHANGED <<argv, args, todo, version, sock, fd, conn, sent, recvd,
                   message, calls, ret, address, stderr, exit_code>>

\* line 95: main returned None, sys.exit(None)
Exit ==
    /\ pc = "end"
    /\ exit_code' = <<0>>
    /\ pc' = "exited"
    /\ UNCHANGED <<argv, args, todo, version, sock, fd, conn, sent, recvd,
                   message, calls, ret, address, stdout, stderr>>

\* lines 84, 90, 95: neither main nor the module catches what get_public_ip
\* raised; the interpreter prints the traceback to stderr and exits with 1
Uncaught ==
    /\ pc = "raised"
    /\ stderr' = "traceback"
    /\ exit_code' = <<1>>
    /\ pc' = "exited"
    /\ UNCHANGED <<argv, args, todo, version, sock, fd, conn, sent, recvd,
                   message, calls, ret, address, stdout>>

Next ==
    \/ ParseArgs
    \/ MainAuto
    \/ MainVersion
    \/ ForNext
    \/ CreateSocket
    \/ Connect
    \/ ReturnNone
    \/ Send
    \/ Recv
    \/ CloseSocket
    \/ Decode
    \/ ResumeAuto
    \/ ResumeVersion
    \/ PrintAddress
    \/ Exit
    \/ Uncaught

Spec == Init /\ [][Next]_vars

----------------------------------------------------------------------------
(* Vocabulary of the properties *)

\* parse_args accepted the command line
Parsed == args # NoArgs

\* get_public_ip(v) ended with an address
Succeeded(v) == ret[v].st = "returned" /\ Truthy(ret[v].val)

\* get_public_ip(v) ended without one: None, an empty string, or an exception
Failed(v) ==
    \/ ret[v].st = "raised"
    \/ ret[v].st = "returned" /\ ~Truthy(ret[v].val)

\* the attempts the selected mode consists of
ModeVersions == IF args.ip_version = 0 THEN <<6, 4>> ELSE <<args.ip_version>>

IsPrefix(s, t) == Len(s) <= Len(t) /\ s = SubSeq(t, 1, Len(s))

\* the failure message the command line asks for
ConfiguredFailureMessage ==
    IF \E i \in 1..Len(argv) : argv[i] = "-f" THEN Offline ELSE DefaultFailureMessage

\* s is one line: no line feed but the one that ends it
OneLine(s) ==
    /\ Len(s) >= 1
    /\ s[Len(s)] = 10
    /\ \A i \in 1..(Len(s) - 1) : s[i] # 10

----------------------------------------------------------------------------
(* C1 *)

\* C1: in auto mode get_public_ip(6) is called before get_public_ip(4), and
\* once get_public_ip(6) has returned an address, version 4 is never tried
\* (no call, no socket) and that address is what main holds and prints.
C1_AutoTriesV6FirstAndStopsOnSuccess ==
    (Parsed /\ args.ip_version = 0) =>
        /\ calls \in {<<>>, <<6>>, <<6, 4>>}
        /\ Succeeded(6) =>
            /\ calls = <<6>>
            /\ fd[4] = "none"
            /\ conn[4] = "none"
            /\ pc \in {"returned", "print", "end", "exited"}
            /\ (pc = "print" => address = ret[6].val)
            /\ (pc \in {"end", "exited"} => stdout = ret[6].val.s \o <<10>>)

\* auto mode ran to its end on an address returned by get_public_ip(6)
C1_Witness ==
    /\ pc = "exited"
    /\ args.ip_version = 0
    /\ Succeeded(6)
    /\ ret[4].st = "notcalled"
    /\ stdout = ret[6].val.s \o <<10>>

----------------------------------------------------------------------------
(* C2 *)

\* C2: in auto mode, when get_public_ip(6) failed and get_public_ip(4) then
\* returned an address A, main holds A and the output is A and a newline.
C2_AutoFallbackPrintsV4Address ==
    (Parsed /\ args.ip_version = 0 /\ Failed(6) /\ Succeeded(4)) =>
        /\ calls = <<6, 4>>
        /\ pc \in {"returned", "print", "end", "exited"}
        /\ (pc = "print" => address = ret[4].val)
        /\ (pc \in {"end", "exited"} => stdout = ret[4].val.s \o <<10>>)

\* the IPv6 connection failed, the IPv4 attempt gave an address, and it was printed
C2_Witness ==
    /\ pc = "exited"
    /\ args.ip_version = 0
    /\ conn[6] = "connect_error"
    /\ ret[6] = Returned(None)
    /\ Succeeded(4)
    /\ stdout = ret[4].val.s \o <<10>>

----------------------------------------------------------------------------
(* C3 *)

\* C3: when every attempt of the selected mode failed (auto: 6 and 4; -4 or
\* -6: that version alone, the other never tried), the output is the failure
\* message and a newline: 'service unreachable' unless -f gave another.
C3_AllFailedPrintsFailureMessage ==
    (pc = "exited" /\ Parsed /\ \A i \in 1..Len(ModeVersions) : Failed(ModeVersions[i])) =>
        /\ calls = ModeVersions
        /\ stdout = ConfiguredFailureMessage \o <<10>>

----------------------------------------------------------------------------
(* C4 *)

\* C4: a finished run has written exactly one line to standard output: the
\* address some attempt returned, or the failure message. Stated for the
\* runs whose command line parse_args accepted, the ones that go on to the
\* connection, send and receive steps (a run that parse_args ends itself
\* writes the help text, or nothing, and is not counted against the claim).
C4_ExactlyOneLine ==
    (pc = "exited" /\ Parsed) =>
        /\ OneLine(stdout)
        /\ \/ stdout = ConfiguredFailureMessage \o <<10>>
           \/ \E v \in Versions : Succeeded(v) /\ stdout = ret[v].val.s \o <<10>>

----------------------------------------------------------------------------
(* C5 *)

\* C5: a finished run has exit status 0, whatever happened to the attempts.
\* Stated for the runs whose command line parse_args accepted, the ones that
\* have a resolution outcome (the status 2 of a rejected command line is not
\* counted against the claim).
C5_ExitCodeZero == (pc = "exited" /\ Parsed) => exit_code = <<0>>

----------------------------------------------------------------------------
(* C6 *)

\* C6: once get_public_ip(v) has returned or raised, the socket made for it
\* is not open any more.
C6_SocketClosedOnAllPaths ==
    \A v \in Versions :
        ret[v].st \in {"returned", "raised"} => fd[v] # "open"

----------------------------------------------------------------------------
(* C7 *)

\* C7: when the connection for version v could not be established (an OSError
\* from the socket calls of open_tcp_connection), get_public_ip(v) returns
\* None, raises nothing, and neither send nor recv was called.
C7_ConnectionFailureReturnsNone ==
    \A v \in Versions :
        (conn[v] \in {"socket_error", "connect_error"}
            /\ ret[v].st \in {"returned", "raised"}) =>
                /\ ret[v] = Returned(None)
                /\ v \notin sent
                /\ v \notin recvd

----------------------------------------------------------------------------
(* C8 *)

\* C8: no attempt ends with an exception: each failure, also one after the
\* connection is established or a response that is empty or not UTF-8, is
\* the failure outcome of that version, so that a finished auto run whose
\* version 6 failed has tried version 4, and no traceback is ever shown.
C8_EveryFailureCollapses ==
    /\ \A v \in Versions : ret[v].st # "raised"
    /\ stderr # "traceback"
    /\ (pc = "exited" /\ Parsed /\ args.ip_version = 0 /\ Failed(6)) => calls = <<6, 4>>

----------------------------------------------------------------------------
(* C9 *)

\* the text of the response the running call received
ResponseText == Utf8Decode(message).s

\* the non-empty lines of the response
NonEmptyLines == SelectSeq(SplitLines(ResponseText), LAMBDA l : l # <<>>)

\* t without the one line boundary it may end with (CR LF is one boundary)
StripFinalBreak(t) ==
    LET n == Len(t) IN
    IF n >= 2 /\ t[n - 1] = 13 /\ t[n] = 10 THEN SubSeq(t, 1, n - 2)
    ELSE IF n >= 1 /\ t[n] \in LineBreaks THEN SubSeq(t, 1, n - 1)
    ELSE t

\* what follows the last line boundary of t; t itself if it has none
AfterLastBreak(t) ==
    LET at == {i \in 1..Len(t) : t[i] \in LineBreaks} IN
    IF at = {} THEN t
    ELSE SubSeq(t, (CHOOSE i \in at : \A j \in at : j <= i) + 1, Len(t))

\* get_public_ip(version) has returned what it made of a received response
ReturnedFromResponse ==
    /\ version \in Versions
    /\ version \in recvd
    /\ ret[version].st = "returned"

\* C9 as stated: the value returned from a received response that has a
\* non-empty line is the last non-empty line, blank lines after it or not,
\* and holds no line boundary.
C9_ReturnsLastNonEmptyLine ==
    (ReturnedFromResponse /\ NonEmptyLines # <<>>) =>
        /\ ~ret[version].val.none
        /\ ret[version].val.s = NonEmptyLines[Len(NonEmptyLines)]
        /\ \A i \in 1..Len(ret[version].val.s) : ret[version].val.s[i] \notin LineBreaks

\* C9 amended: the value returned from a received response is a string, the
\* text after the last line boundary of the response, one final boundary not
\* counted (so L when L ends the response or is followed by one boundary, and
\* the empty string when blank lines follow L), and holds no line boundary.
C9_ReturnsLastLine ==
    ReturnedFromResponse =>
        /\ ~ret[version].val.none
        /\ ret[version].val.s = AfterLastBreak(StripFinalBreak(ResponseText))
        /\ \A i \in 1..Len(ret[version].val.s) : ret[version].val.s[i] \notin LineBreaks

\* b'\n1\r' was received and '1' returned
C9_Witness ==
    /\ ReturnedFromResponse
    /\ conn[version] = "connected"
    /\ fd[version] = "closed"
    /\ message = <<10, 49, 13>>
    /\ ret[version].val = Str(<<49>>)

----------------------------------------------------------------------------
(* C10 *)

\* C10: at most one socket is open at any time, a run makes at most two
\* attempts, in the order of its mode (auto: 6 then 4; -4 or -6: that one),
\* and the socket of version 6 is released before that of version 4 is made
\* in auto mode, also when version 6 could not connect.
C10_OneSocketSequentialAttempts ==
    /\ Cardinality({v \in Versions : fd[v] = "open"}) <= 1
    /\ Len(calls) <= 2
    /\ Parsed => IsPrefix(calls, ModeVersions)
    /\ (Parsed /\ args.ip_version = 0 /\ fd[4] # "none") => fd[6] # "open"

\* auto mode: the IPv6 connection failed, its socket is released, and the
\* IPv4 socket has been made
C10_Witness ==
    /\ Parsed
    /\ args.ip_version = 0
    /\ calls = <<6, 4>>
    /\ conn[6] = "connect_error"
    /\ fd[6] = "closed"
    /\ fd[4] = "open"

====
